---- MODULE Spec2Model ----
(***************************************************************************)
(* Model of stylotron (lib/stylotron.js): SOT.text.map (segmented range    *)
(* maps), SOT.map.markup (layered markup), SOT.PatternSeries (registry)    *)
(* and the replace operations.                                             *)
(*                                                                         *)
(* A segment is [range |-> [start, end], origs |-> <<origin, ...>>], an    *)
(* origin is [setname |-> name, range |-> [start, end, setindex]], a map   *)
(* is a sequence of segments.  JavaScript arrays are 0-based: index i of   *)
(* the source is element i+1 of the sequence here.  Strings are sequences  *)
(* of symbols (a text character, or one literal piece of a tag).           *)
(***************************************************************************)
EXTENDS Integers, Sequences, FiniteSets, TLC

VARIABLES
  text,      \* the plain text the map is built over
  map,       \* the SOT.text.map built so far
  op,        \* the last insertion: its kind, set name and (normalised) ranges
  inserted,  \* the text offsets covered by the ranges inserted so far
  n,         \* the number of insertion calls made
  defs,      \* the defs handed to SOT.map.markup
  opts,      \* the opts handed to SOT.map.markup
  out,       \* the result of the last markup, replace or buildmap call
  series     \* a PatternSeries' defs: its entries in key (creation) order

vars == <<text, map, op, inserted, n, defs, opts, out, series>>

(* ------------------------------ bounds --------------------------------- *)
TextLen == 3      \* length of the text of the map-building runs
ShortLen == 2     \* length of the text of the markup and replace runs
MaxOps == 2       \* insertion calls per run
MaxMatches == 2   \* matches one regex yields
MaxRegs == 3      \* registration calls made on a PatternSeries
PosLen == 7       \* length of the text of the position-query runs

Names == {"a", "b"}

Min(x, y) == IF x < y THEN x ELSE y
MutSecond(a, b) == b
Max(x, y) == IF x < y THEN y ELSE x

(* ------------------------- SOT.text.map.range -------------------------- *)
neworigs(setname, range) ==
  << [setname |-> setname,
      range |-> [start |-> range.start, end |-> range.end, setindex |-> range.setindex]] >>

mk(start, end, origs) == [range |-> [start |-> start, end |-> end], origs |-> origs]

(* ---------------------------- segmentation ----------------------------- *)
(* [...i.origs, ...m.origs]: origins of the existing segment come first    *)
MutConcatNewFirst(iorigs, morigs) == morigs \o iorigs

MutDropNew(iorigs, morigs) == iorigs

ConcatOrigs(iorigs, morigs) == iorigs \o morigs

MutTailNew(m, i, r) == m.origs

(* r.start<m.range.end?m.origs:i.origs: what is left belongs to whichever  *)
(* of the two ranges ends last                                             *)
TailOrigs(m, i, r) == IF r.start < m.range.end THEN m.origs ELSE i.origs

(* _seg2 pushes onto p.newmap and returns the carried-forward range; the   *)
(* result here is the pair of both                                         *)
_seg2(m, i, p) ==
  LET r1 == [start |-> Min(m.range.start, i.range.start),
             end |-> Max(m.range.start, i.range.start)]
      nm1 == IF r1.start < r1.end
               THEN Append(p.newmap,
                           mk(r1.start, r1.end,
                              IF r1.start < i.range.start THEN m.origs ELSE i.origs))
               ELSE p.newmap
      r2 == [start |-> Max(m.range.start, i.range.start),
             end |-> Min(m.range.end, i.range.end)]
      nm2 == Append(nm1, mk(r2.start, r2.end, ConcatOrigs(i.origs, m.origs)))
      r3 == [start |-> Min(m.range.end, i.range.end),
             end |-> Max(m.range.end, i.range.end)]
  IN [m |-> mk(r3.start, r3.end, TailOrigs(m, i, r3)),
      p |-> [p EXCEPT !.newmap = nm2]]

RECURSIVE _segmentloop(_, _, _)
_segmentloop(m, mp, p) ==
  IF p.i < Len(mp) /\ mp[p.i + 1].range.start < m.range.end
    THEN LET r == _seg2(m, mp[p.i + 1], p)
         IN _segmentloop(r.m, mp, [r.p EXCEPT !.i = @ + 1])
    ELSE [m |-> m, p |-> p]

MutKeepEmptyTail(m) == TRUE

MutDropTail(m) == FALSE

KeepTail(m) == m.range.start < m.range.end

MutNoIceberg(m, p) == FALSE

(* newmap may end with an iceberg segment: the remainder an earlier match  *)
(* of the same call left of an existing segment                            *)
Iceberg(m, p) ==
  Len(p.newmap) > 0 /\ m.range.start < p.newmap[Len(p.newmap)].range.end

_segment(start, end, origs, mp, p) ==
  LET m0 == mk(start, end, origs)
      a == IF Iceberg(m0, p)
             THEN _seg2(m0, p.newmap[Len(p.newmap)],
                        [p EXCEPT !.newmap = SubSeq(p.newmap, 1, Len(p.newmap) - 1)])
             ELSE [m |-> m0, p |-> p]
      b == _segmentloop(a.m, mp, a.p)
  IN IF KeepTail(b.m)
       THEN [b.p EXCEPT !.newmap = Append(@, b.m)]
       ELSE b.p

RECURSIVE _skipcovered(_, _, _)
_skipcovered(end, mp, i) ==
  IF i < Len(mp) /\ mp[i + 1].range.end <= end
    THEN _skipcovered(end, mp, i + 1)
    ELSE i

MutKeepOverlapped(seg, end) == FALSE

(* the next entry starts inside the inserted range: it is discarded too *)
StartsBefore(seg, end) == seg.range.start < end

_overwrite(start, end, origs, mp, p) ==
  LET nm == Append(p.newmap, mk(start, end, origs))
      i1 == _skipcovered(end, mp, p.i)
      i2 == IF i1 < Len(mp) /\ StartsBefore(mp[i1 + 1], end) THEN i1 + 1 ELSE i1
  IN [p EXCEPT !.newmap = nm, !.i = i2]

RECURSIVE _addbefore(_, _, _)
_addbefore(start, mp, p) ==
  IF p.i < Len(mp) /\ mp[p.i + 1].range.end <= start
    THEN _addbefore(start, mp,
                    [p EXCEPT !.newmap = Append(@, mp[p.i + 1]), !.i = @ + 1])
    ELSE p

_insertrange(start, end, set, mp, segment, p) ==
  LET p1 == _addbefore(start, mp, p)
      origs == neworigs(set, [start |-> start, end |-> end, setindex |-> p1.setindex])
  IN IF segment
       THEN _segment(start, end, origs, mp, p1)
       ELSE _overwrite(start, end, origs, mp, p1)

MutNoEndRanges(mp, p) == p.newmap

_addendranges(mp, p) ==
  p.newmap \o SubSeq(mp, p.i + 1, Len(mp))

MutP0InputArray == [newmap |-> <<>>, i |-> 0, setindex |-> 0, fresh |-> FALSE]

(* {newmap:[],i:0,setindex:0}: newmap is a fresh array, the only array the *)
(* insertion writes to (push, pop)                                         *)
p0 == [newmap |-> <<>>, i |-> 0, setindex |-> 0, fresh |-> TRUE]

(* A regex is modelled by what matchAll yields on the text: whether it     *)
(* carries the g flag (matchAll throws a TypeError without it) and its     *)
(* matches, each [index, len], in the order the iterator yields them       *)
RECURSIVE _matchloop(_, _, _, _, _, _)
_matchloop(matches, k, setname, segment, mp, p) ==
  IF k > Len(matches)
    THEN p
    ELSE LET q == _insertrange(matches[k].index, matches[k].index + matches[k].len,
                               setname, mp, segment, p)
         IN _matchloop(matches, k + 1, setname, segment, mp,
                       [q EXCEPT !.setindex = @ + 1])

MutGlobalAlways(regex) == TRUE

(* text.matchAll( regex ) raises a TypeError unless the regex is global *)
IsGlobal(regex) == regex.global

addmatches(txt, regex, setname, segment, mp) ==
  IF ~IsGlobal(regex)
    THEN mp
    ELSE _addendranges(mp, _matchloop(regex.matches, 1, setname, segment, mp, p0))

(* the input array after the call: it changes only if the array written   *)
(* to is the input array itself                                            *)
InputAfter(mp, p) == IF p.fresh THEN mp ELSE _addendranges(mp, p)

addmatchesinput(txt, regex, setname, segment, mp) ==
  IF ~IsGlobal(regex)
    THEN mp
    ELSE InputAfter(mp, _matchloop(regex.matches, 1, setname, segment, mp, p0))

addrange(txt, range, setname, segment, mp) ==
  LET r == IF range.start > range.end
             THEN [start |-> range.end, end |-> range.start]
             ELSE range
  IN _addendranges(mp, _insertrange(r.start, r.end, setname, mp, segment, p0))

addrangeinput(txt, range, setname, segment, mp) ==
  LET r == IF range.start > range.end
             THEN [start |-> range.end, end |-> range.start]
             ELSE range
  IN InputAfter(mp, _insertrange(r.start, r.end, setname, mp, segment, p0))

(* ------------------------------ SOT.text ------------------------------- *)
(* text.slice(a, b) for 0 <= a: the symbols at offsets a .. b-1            *)
slice(s, a, b) == SubSeq(s, a + 1, Min(b, Len(s)))

Amp == <<"&", "a", "m", "p", ";">>
Gt == <<"&", "g", "t", ";">>
Lt == <<"&", "l", "t", ";">>

RECURSIVE replaceg(_, _, _)
replaceg(s, c, with) ==
  IF s = <<>>
    THEN <<>>
    ELSE (IF Head(s) = c THEN with ELSE <<Head(s)>>) \o replaceg(Tail(s), c, with)

MutAmpLast(s) == replaceg(replaceg(replaceg(s, ">", Gt), "<", Lt), "&", Amp)

raw2HTML(s) == replaceg(replaceg(replaceg(s, "&", Amp), ">", Gt), "<", Lt)

(* a tag is a sequence of symbols; /^[A-Za-z0-9-_]+/ matches its leading   *)
(* symbols made of name characters                                         *)
NameSyms == {"mark", "div", "span", "input"}

RECURSIVE extractto(_)
extractto(tag) ==
  IF tag # <<>> /\ Head(tag) \in NameSyms
    THEN <<Head(tag)>> \o extractto(Tail(tag))
    ELSE <<>>

(* ---------------------------- SOT.map.markup --------------------------- *)
(* the JavaScript value undefined of a defs entry's htmltagend             *)
Undefined == <<"undefined">>

(* prevseg before the first segment (undefined), nextseg after the last    *)
(* (null)                                                                  *)
NoSeg == [range |-> [start |-> -1, end |-> -1], origs |-> <<>>]

_tag(o, d, layer, end) ==
  LET t0 == IF o.htmltag # <<>> THEN o.htmltag ELSE <<"mark">>
  IN IF end /\ d[layer.setname].htmltagend # Undefined
       THEN d[layer.setname].htmltagend
       ELSE IF d[layer.setname].htmltag # <<>>
              THEN d[layer.setname].htmltag
              ELSE t0

MutIsTagDifRange(seg, compareseg, layerindex) ==
  \/ compareseg = NoSeg
  \/ layerindex >= Len(compareseg.origs)
  \/ seg.origs[layerindex + 1] # compareseg.origs[layerindex + 1]

_istagdif(seg, compareseg, layerindex) ==
  \/ compareseg = NoSeg
  \/ layerindex >= Len(compareseg.origs)
  \/ seg.origs[layerindex + 1].setname # compareseg.origs[layerindex + 1].setname
  \/ seg.origs[layerindex + 1].range.setindex
       # compareseg.origs[layerindex + 1].range.setindex

RECURSIVE _difdepthfrom(_, _, _)
_difdepthfrom(seg, compareseg, depth) ==
  IF depth < Len(seg.origs) /\ ~_istagdif(seg, compareseg, depth)
    THEN _difdepthfrom(seg, compareseg, depth + 1)
    ELSE depth

_difdepth(seg, compareseg) == _difdepthfrom(seg, compareseg, 0)

MutLAtEnd(layer, segrange) == layer.range.end = segrange.end

IsLeft(layer, segrange) == layer.range.start = segrange.start

(* attrs[a] = v: an existing key keeps its place, a new key goes last *)
SetAttr(attrs, a, v) ==
  IF \E k \in 1..Len(attrs) : attrs[k].a = a
  THEN [k \in 1..Len(attrs) |-> IF attrs[k].a = a THEN [a |-> a, v |-> v] ELSE attrs[k]]
  ELSE Append(attrs, [a |-> a, v |-> v])

(* s.replace( "$_&", by ): the first "$_&" of s gives way to by *)
RECURSIVE ReplaceFirst(_, _)
ReplaceFirst(s, by) ==
  IF s = <<>> THEN <<>>
  ELSE IF Head(s) = "$_&" THEN by \o Tail(s)
  ELSE <<Head(s)>> \o ReplaceFirst(Tail(s), by)

(* _addattrs, for attributes given as strings *)
RECURSIVE _addattrs(_, _, _, _)
_addattrs(attrs, addattrs, origrange, fulltext) ==
  IF addattrs = <<>> THEN attrs
  ELSE _addattrs(SetAttr(attrs, Head(addattrs).a,
                         ReplaceFirst(Head(addattrs).v,
                                      slice(fulltext, origrange.start, origrange.end))),
                 Tail(addattrs), origrange, fulltext)

NoCallback == [kind |-> "none"]

Digits == <<"0", "1", "2", "3", "4", "5", "6", "7", "8", "9">>

(* the id a callback computes from the map index and the layer index *)
IdOf(mapindex, j) == <<"k", Digits[mapindex + 1], "j", Digits[j + 1]>>

MutMergedOver(callback, params) ==
  CASE callback.kind = "fresh" -> SetAttr(params.attrs, "id", IdOf(params.mapindex, params.layerindex))
    [] callback.kind = "add" -> SetAttr(params.attrs, "id", IdOf(params.mapindex, params.layerindex))
    [] OTHER -> params.attrs

(* attrs = callback( params ): what comes back is all that is written.    *)
(* The callbacks: one returning params.attrs as it is, one adding an id   *)
(* to params.attrs and returning it, one returning a fresh object holding *)
(* the id alone, one returning nothing (undefined: no key to loop over)   *)
CallbackResult(callback, params) ==
  CASE callback.kind = "same" -> params.attrs
    [] callback.kind = "add" ->
         SetAttr(params.attrs, "id", IdOf(params.mapindex, params.layerindex))
    [] callback.kind = "fresh" ->
         <<[a |-> "id", v |-> IdOf(params.mapindex, params.layerindex)]>>
    [] OTHER -> <<>>

(* for( var a in attrs ): writes each attribute, leaves two blanks after  *)
(* the class value and records where in starts[setname]                    *)
RECURSIVE _attrsloop(_, _, _, _, _)
_attrsloop(attrs, k, t, rec, st) ==
  IF k > Len(attrs) THEN [t |-> t, st |-> st]
  ELSE LET a == attrs[k].a
           v == attrs[k].v
           t1 == t \o <<" ", a>> \o (IF v # <<>> THEN <<"=\"">> \o v ELSE <<>>)
           t2 == IF a = "class" THEN t1 \o <<" ", " ">> ELSE t1
           st2 == IF a = "class"
                    THEN [st EXCEPT !.starts[rec.setname] =
                            << [pos |-> rec.offset + Len(t2) - 1,
                                pieceindex |-> rec.pieceindex, j |-> rec.j,
                                seg |-> rec.seg] >>]
                    ELSE st
       IN _attrsloop(attrs, k + 1, t2 \o (IF v # <<>> THEN <<"\"">> ELSE <<>>), rec, st2)

(* _tagstart returns the tag and records starts[setname]; the emitted tag *)
(* and the call of the callback (mapindex, layerindex) are logged         *)
_tagstart(o, d, segrange, layer, mapindex, j, pieceindex, offset, st) ==
  LET cls == <<layer.setname>> \o (IF IsLeft(layer, segrange) THEN <<" ", "L">> ELSE <<>>)
      attrs0 == <<[a |-> "class", v |-> cls]>>
      attrs1 == IF "htmlattrs" \in DOMAIN d[layer.setname]
                  THEN _addattrs(attrs0, d[layer.setname].htmlattrs, layer.range, st.fulltext)
                  ELSE attrs0
      params == [attrs |-> attrs1, class |-> layer.setname, mapindex |-> mapindex,
                 layerindex |-> j]
      attrs == IF st.callback # NoCallback
                 THEN CallbackResult(st.callback, params)
                 ELSE attrs1
      st1 == [st EXCEPT !.events = Append(@, [kind |-> "open", k |-> mapindex, j |-> j,
                                              setname |-> layer.setname]),
                        !.calls = IF st.callback # NoCallback
                                    THEN Append(@, params) ELSE @]
      r == _attrsloop(attrs, 1, <<"<">> \o _tag(o, d, layer, FALSE),
                      [setname |-> layer.setname, offset |-> offset,
                       pieceindex |-> pieceindex, j |-> j, seg |-> segrange], st1)
  IN [t |-> r.t \o <<">">>, st |-> r.st]

RECURSIVE _layersstartloop(_, _, _, _, _, _, _, _)
_layersstartloop(o, d, seg, mapindex, pieceindex, j, tags, st) ==
  IF j < Len(seg.origs)
    THEN LET r == _tagstart(o, d, seg.range, seg.origs[j + 1], mapindex, j,
                            pieceindex, Len(tags), st)
         IN _layersstartloop(o, d, seg, mapindex, pieceindex, j + 1, tags \o r.t, r.st)
    ELSE [tags |-> tags, st |-> st]

_layersstart(o, d, prevseg, seg, mapindex, pieceindex, st) ==
  _layersstartloop(o, d, seg, mapindex, pieceindex, _difdepth(seg, prevseg), <<>>, st)

_tagend(o, d, layer) ==
  LET tag == _tag(o, d, layer, TRUE)
  IN IF tag = <<>> THEN <<>> ELSE <<"</">> \o extractto(tag) \o <<">">>

RECURSIVE _layersendloop(_, _, _, _, _, _, _, _)
_layersendloop(o, d, seg, mapindex, j, k, t, st) ==
  IF k >= j
    THEN LET e == _tagend(o, d, seg.origs[k + 1])
         IN _layersendloop(o, d, seg, mapindex, j, k - 1, t \o e,
              [st EXCEPT !.events =
                 IF e = <<>>
                   THEN @
                   ELSE Append(@, [kind |-> "close", k |-> mapindex, j |-> k,
                                   setname |-> seg.origs[k + 1].setname])])
    ELSE [tags |-> t, st |-> st]

_layersend(o, d, seg, nextseg, mapindex, st) ==
  _layersendloop(o, d, seg, mapindex, _difdepth(seg, nextseg), Len(seg.origs) - 1, <<>>, st)

RECURSIVE _setlayerrightloop(_, _, _)
_setlayerrightloop(seg, l, st) ==
  IF l > Len(seg.origs)
    THEN st
    ELSE LET layer == seg.origs[l]
             s == st.starts[layer.setname]
         IN IF s # <<>> /\ layer.range.end = seg.range.end
              THEN LET piece == st.html[s[1].pieceindex + 1]
                       patched == SubSeq(piece, 1, s[1].pos) \o <<"R">>
                                    \o SubSeq(piece, s[1].pos + 2, Len(piece))
                   IN _setlayerrightloop(seg, l + 1,
                        [st EXCEPT !.html[s[1].pieceindex + 1] = patched,
                                   !.starts[layer.setname] = <<>>])
              ELSE _setlayerrightloop(seg, l + 1, st)

_setlayerright(seg, st) == _setlayerrightloop(seg, 1, st)

htmladd(html, piece) == IF piece # <<>> THEN Append(html, piece) ELSE html

RECURSIVE htmlstringfrom(_, _)
htmlstringfrom(html, k) ==
  IF k > Len(html) THEN <<>> ELSE html[k] \o htmlstringfrom(html, k + 1)

htmlstring(html) == htmlstringfrom(html, 1)

MutAlwaysSetRight(endtags) == TRUE

HasEndTags(endtags) == endtags # <<>>

(* one turn of the main loop, for map index i *)
_markupstep(fulltext, mp, o, d, i, st) ==
  LET seg == mp[i + 1]
      h1 == htmladd(st.html, raw2HTML(slice(fulltext, st.n, seg.range.start)))
      nextseg == IF i < Len(mp) - 1 THEN mp[i + 2] ELSE NoSeg
      inside == raw2HTML(slice(fulltext, seg.range.start, seg.range.end))
      start == _layersstart(o, d, st.prevseg, seg, i,
                            IF st.text # <<>> THEN Len(h1) + 1 ELSE Len(h1),
                            [st EXCEPT !.html = h1])
      s2 == IF start.tags # <<>>
              THEN [start.st EXCEPT
                      !.html = htmladd(htmladd(htmladd(h1, st.text), start.tags), inside),
                      !.text = <<>>]
              ELSE [start.st EXCEPT !.text = @ \o inside]
      end == _layersend(o, d, seg, nextseg, i, s2)
      s3 == IF HasEndTags(end.tags)
              THEN _setlayerright(seg,
                     [end.st EXCEPT !.html = htmladd(@, s2.text \o end.tags),
                                    !.text = <<>>])
              ELSE end.st
  IN [s3 EXCEPT !.n = seg.range.end, !.prevseg = seg]

RECURSIVE _markuploop(_, _, _, _, _, _)
_markuploop(fulltext, mp, o, d, i, st) ==
  IF i < Len(mp)
    THEN _markuploop(fulltext, mp, o, d, i + 1, _markupstep(fulltext, mp, o, d, i, st))
    ELSE st

(* html = [], text = "", starts = {}, n = 0, prevseg undefined; with   *)
(* them what the nested functions see of the call: callback, fulltext   *)
NoLocals ==
  [html |-> <<>>, text |-> <<>>, starts |-> [c \in Names |-> <<>>],
   events |-> <<>>, n |-> 0, prevseg |-> NoSeg,
   calls |-> <<>>, callback |-> NoCallback, fulltext |-> <<>>]

MutLocalsKept(left) == left

(* html, text, starts and the loop variables are declared inside markup:  *)
(* every call starts from fresh ones whatever an earlier call left         *)
FreshLocals(left) == NoLocals

(* the result keeps the pieces, the emitted-tag record and the final       *)
(* locals beside the returned string                                       *)
_markupresult(fulltext, st) ==
  [string |-> htmlstring(st.html) \o raw2HTML(slice(fulltext, st.n, Len(fulltext))),
   html |-> st.html,
   events |-> st.events,
   left |-> st]

markupfrom(fulltext, mp, o, d, left) ==
  _markupresult(fulltext,
    _markuploop(fulltext, mp, o, d, 0,
                [FreshLocals(left) EXCEPT !.fulltext = fulltext, !.callback = NoCallback]))

(* SOT.map.markup( fulltext, map, opts, defs, callback ) *)
markupwith(fulltext, mp, o, d, callback) ==
  _markupresult(fulltext,
    _markuploop(fulltext, mp, o, d, 0,
                [NoLocals EXCEPT !.fulltext = fulltext, !.callback = callback]))

markup(fulltext, mp, o, d) == markupfrom(fulltext, mp, o, d, NoLocals)

(* ------------------------------ inputs --------------------------------- *)
MatchesOn(len) == {m \in [index : 0..len, len : 0..len] : m.index + m.len <= len}

(* matchAll yields matches in ascending order, none overlapping another    *)
Ordered(ms) ==
  \A k \in 1..(Len(ms) - 1) : ms[k].index + ms[k].len <= ms[k + 1].index

MatchListsOn(len) ==
  UNION {{ms \in [1..k -> MatchesOn(len)] : Ordered(ms)} : k \in 0..MaxMatches}

NonEmptyMatchListsOn(len) ==
  {ms \in MatchListsOn(len) : \A k \in 1..Len(ms) : ms[k].len > 0}

NoOp == [kind |-> "none", setname |-> "", ranges |-> <<>>]

MatchRanges(ms) ==
  [k \in 1..Len(ms) |-> [start |-> ms[k].index, end |-> ms[k].index + ms[k].len]]

RangeOffsets(r) == {q \in Nat : r.start <= q /\ q < r.end}

RangesOffsets(rs) == UNION {r.start..(r.end - 1) : r \in {rs[k] : k \in 1..Len(rs)}}

Chars == <<"x", "&", "<", ">">>

TextOn(len) == [k \in 1..len |-> Chars[(k % 4) + 1]]

TextsOn(len) == {[k \in 1..len |-> Chars[((k + r) % 4) + 1]] : r \in {0, 2}}

TagCfgs ==
  { [htmltag |-> <<>>, htmltagend |-> Undefined],
    [htmltag |-> <<"input">>, htmltagend |-> <<>>] }

DefsSet == [Names -> TagCfgs]

OptsSet == { [htmltag |-> <<>>], [htmltag |-> <<"span">>] }

NoDefs == [c \in Names |-> [htmltag |-> <<>>, htmltagend |-> Undefined]]

NoOpts == [htmltag |-> <<>>]

NoOut == [kind |-> "none"]

(* ------------------ specification: Segment-mode insertions ------------- *)
Init ==
  /\ text = TextOn(TextLen)
  /\ map = <<>>
  /\ op = NoOp
  /\ inserted = {}
  /\ n = 0
  /\ defs = NoDefs
  /\ opts = NoOpts
  /\ out = NoOut
  /\ series = <<>>

(* SOT.text.map.addrange( text, range, setname, true, map ) *)
AddRange ==
  \E s \in 0..TextLen, e \in 0..TextLen, c \in Names :
    /\ n < MaxOps
    /\ s # e
    /\ map' = addrange(text, [start |-> s, end |-> e], c, TRUE, map)
    /\ op' = [kind |-> "range", setname |-> c,
              ranges |-> << [start |-> Min(s, e), end |-> Max(s, e)] >>]
    /\ inserted' = inserted \cup (Min(s, e)..(Max(s, e) - 1))
    /\ n' = n + 1
    /\ UNCHANGED <<text, defs, opts, out, series>>

(* SOT.text.map.addmatches( text, regex, setname, true, map ) *)
AddMatches ==
  \E ms \in NonEmptyMatchListsOn(TextLen), c \in Names :
    /\ n < MaxOps
    /\ map' = addmatches(text, [global |-> TRUE, matches |-> ms], c, TRUE, map)
    /\ op' = [kind |-> "matches", setname |-> c, ranges |-> MatchRanges(ms)]
    /\ inserted' = inserted \cup RangesOffsets(MatchRanges(ms))
    /\ n' = n + 1
    /\ UNCHANGED <<text, defs, opts, out, series>>

Next == AddRange \/ AddMatches

Spec == Init /\ [][Next]_vars

(***************************************************************************)
(* The single pass of addmatches next to the insertion of the same matches *)
(* one after another, each into the map the previous insertion produced    *)
(***************************************************************************)
RECURSIVE OneByOne(_, _, _, _, _)
OneByOne(txt, ranges, k, setname, mp) ==
  IF k > Len(ranges)
    THEN mp
    ELSE OneByOne(txt, ranges, k + 1, setname,
                  addrange(txt, ranges[k], setname, TRUE, mp))

(* SOT.text.map.addmatches( text, regex, setname, true, map ), with the    *)
(* map the one-by-one insertion yields recorded next to it                 *)
SinglePass ==
  \E ms \in NonEmptyMatchListsOn(TextLen), c \in Names :
    /\ n < MaxOps
    /\ map' = addmatches(text, [global |-> TRUE, matches |-> ms], c, TRUE, map)
    /\ op' = [kind |-> "single pass", setname |-> c, ranges |-> MatchRanges(ms)]
    /\ out' = [kind |-> "one by one", before |-> map,
               map |-> OneByOne(text, MatchRanges(ms), 1, c, map)]
    /\ inserted' = inserted \cup RangesOffsets(MatchRanges(ms))
    /\ n' = n + 1
    /\ UNCHANGED <<text, defs, opts, series>>

NextSinglePass == AddRange \/ SinglePass

SpecSinglePass == Init /\ [][NextSinglePass]_vars

(* ranges, origin names and order of origins *)
Shape(mp) ==
  [k \in 1..Len(mp) |->
    [range |-> mp[k].range,
     names |-> [j \in 1..Len(mp[k].origs) |-> mp[k].origs[j].setname]]]

(* C25: for ordered, non-overlapping, non-empty matches the single pass of *)
(* addmatches in Segment mode yields the same segments (ranges, origin     *)
(* names, order of origins) as inserting the matches one after another     *)
C25_SinglePass ==
  op.kind = "single pass" => Shape(map) = Shape(out.map)

(* the second match falls inside the remainder the first match left of an  *)
(* existing segment, and splits it                                         *)
C25_Witness ==
  /\ op.kind = "single pass"
  /\ Len(op.ranges) = 2
  /\ \E k \in 1..Len(out.before) :
       /\ out.before[k].range.start <= op.ranges[1].start
       /\ op.ranges[2].end < out.before[k].range.end
  /\ Shape(map) = Shape(out.map)

(* ---------------------------- C27, C28 --------------------------------- *)
Origins(mp) ==
  UNION {{mp[k].origs[j] : j \in 1..Len(mp[k].origs)} : k \in 1..Len(mp)}

Listing(mp, o) ==
  {k \in 1..Len(mp) : \E j \in 1..Len(mp[k].origs) : mp[k].origs[j] = o}

First(K) == CHOOSE k \in K : \A k2 \in K : k <= k2

Last(K) == CHOOSE k \in K : \A k2 \in K : k2 <= k

(* C27: after any sequence of Segment-mode insertions of non-empty ranges, *)
(* for every origin recorded in the map the segments listing it are        *)
(* consecutive, abut one another and together cover exactly the origin's   *)
(* recorded range; so every segment lies inside each of its origins' range *)
C27_OriginCovered ==
  \A o \in Origins(map) :
    LET K == Listing(map, o)
    IN /\ K = First(K)..Last(K)
       /\ \A k \in K : (k + 1) \in K => map[k].range.end = map[k + 1].range.start
       /\ map[First(K)].range.start = o.range.start
       /\ map[Last(K)].range.end = o.range.end
       /\ \A k \in K : /\ o.range.start <= map[k].range.start
                       /\ map[k].range.end <= o.range.end

(* an origin spread over several segments, one of them shared with a later *)
(* origin                                                                  *)
C27_Witness ==
  \E o \in Origins(map) :
    /\ Cardinality(Listing(map, o)) >= 2
    /\ \E k \in Listing(map, o) : Len(map[k].origs) >= 2
    /\ map[First(Listing(map, o))].range.start = o.range.start
    /\ map[Last(Listing(map, o))].range.end = o.range.end

(* C28: after any sequence of Segment-mode insertions of non-empty ranges  *)
(* no two abutting neighbouring segments (end of one equal to start of the *)
(* next) have identical origin lists                                       *)
C28_Maximal ==
  \A k \in 1..(Len(map) - 1) :
    map[k].range.end = map[k + 1].range.start => map[k].origs # map[k + 1].origs

(* abutting neighbours under the same set name, told apart by their origins *)
C28_Witness ==
  \E k \in 1..(Len(map) - 1) :
    /\ map[k].range.end = map[k + 1].range.start
    /\ Len(map[k].origs) = 1
    /\ Len(map[k + 1].origs) = 2
    /\ map[k].origs[1] = map[k + 1].origs[1]
    /\ map[k].origs # map[k + 1].origs

(* ----------------------------- C1 .. C3 -------------------------------- *)
Covered(mp) ==
  UNION {mp[k].range.start..(mp[k].range.end - 1) : k \in 1..Len(mp)}

(* the origin list seen at text offset q: that of the segment holding q    *)
OrigsAt(mp, q) ==
  IF \E k \in 1..Len(mp) : mp[k].range.start <= q /\ q < mp[k].range.end
    THEN mp[CHOOSE k \in 1..Len(mp) :
              mp[k].range.start <= q /\ q < mp[k].range.end].origs
    ELSE <<>>

(* C1: after any sequence of Segment-mode insertions of non-empty ranges   *)
(* into the empty map, every segment has start < end and each segment's    *)
(* end is <= the next segment's start                                      *)
C1_Ascending ==
  \A k \in 1..Len(map) :
    /\ map[k].range.start < map[k].range.end
    /\ k < Len(map) => map[k].range.end <= map[k + 1].range.start

(* a second match of one addmatches call has split the remainder that the  *)
(* first match left of an existing segment                                 *)
C1_Witness ==
  /\ n = 2
  /\ op.kind = "matches"
  /\ Len(op.ranges) = 2
  /\ Len(map) = 3
  /\ \A k \in 1..3 : Len(map[k].origs) = IF k = 2 THEN 1 ELSE 2

(* C2: the offsets covered by the map's segments are exactly the offsets   *)
(* of the ranges inserted so far                                           *)
C2_Union == Covered(map) = inserted

(* an insertion reaching over a gap and two existing segments              *)
C2_Witness ==
  /\ n = 2
  /\ Len(map) >= 3
  /\ inserted = 0..(TextLen - 1)
  /\ \E k \in 1..Len(map) : Len(map[k].origs) = 2
  /\ \E k \in 1..Len(map) : map[k].origs = neworigs(op.setname, op.ranges[1] @@ [setindex |-> 0])

(* C3: an insertion of [s,e) under a name appends the new origin to the    *)
(* origin list at every offset of [s,e) and leaves the list at every other *)
(* offset as it was                                                        *)
C3_Appended ==
  [][\A q \in 0..(TextLen - 1) :
       OrigsAt(map', q) =
         IF \E k \in 1..Len(op'.ranges) : q \in RangeOffsets(op'.ranges[k])
           THEN LET k == CHOOSE j \in 1..Len(op'.ranges) : q \in RangeOffsets(op'.ranges[j])
                IN OrigsAt(map, q)
                     \o neworigs(op'.setname, op'.ranges[k] @@ [setindex |-> k - 1])
           ELSE OrigsAt(map, q)]_vars

(* the last insertion lies strictly inside an existing segment: the middle *)
(* lists the existing origin first, both remainders keep the old list      *)
C3_Witness ==
  /\ n = 2
  /\ Len(map) = 3
  /\ Len(map[2].origs) = 2
  /\ map[2].origs[2].setname = op.setname
  /\ map[2].origs[2].range.start = op.ranges[1].start
  /\ map[1].origs = <<map[2].origs[1]>>
  /\ map[3].origs = <<map[2].origs[1]>>

(* ------------------- specification: building and rendering ------------- *)
InitRender ==
  /\ text \in TextsOn(ShortLen)
  /\ map = <<>>
  /\ op = NoOp
  /\ inserted = {}
  /\ n = 0
  /\ defs = NoDefs
  /\ opts = NoOpts
  /\ out = NoOut
  /\ series = <<>>

(* the map is built first and is read-only once it is handed on *)
BuildRange ==
  \E s \in 0..ShortLen, e \in 0..ShortLen, c \in Names :
    /\ out = NoOut
    /\ n < MaxOps
    /\ s # e
    /\ map' = addrange(text, [start |-> s, end |-> e], c, TRUE, map)
    /\ n' = n + 1
    /\ UNCHANGED <<text, op, inserted, defs, opts, out, series>>

BuildMatches ==
  \E ms \in NonEmptyMatchListsOn(ShortLen), c \in Names :
    /\ out = NoOut
    /\ n < MaxOps
    /\ map' = addmatches(text, [global |-> TRUE, matches |-> ms], c, TRUE, map)
    /\ n' = n + 1
    /\ UNCHANGED <<text, op, inserted, defs, opts, out, series>>

(***************************************************************************)
(* Insertions in either mode, empty ranges and matches and regexes without *)
(* the g flag included                                                     *)
(***************************************************************************)

InsertRegexes ==
  {[global |-> TRUE, matches |-> ms] : ms \in MatchListsOn(ShortLen) \ {<<>>}}
    \cup {[global |-> FALSE, matches |-> <<[index |-> 0, len |-> 1]>>]}

(* SOT.text.map.addrange( text, range, setname, segment, map ) *)
InsertRange ==
  \E s \in 0..ShortLen, e \in 0..ShortLen, c \in Names, segment \in BOOLEAN :
    /\ out = NoOut
    /\ n < MaxOps
    /\ n' = n + 1
    /\ op' = [kind |-> "range", setname |-> c, segment |-> segment, global |-> TRUE,
              ranges |-> << [start |-> Min(s, e), end |-> Max(s, e)] >>]
    /\ out' = [kind |-> "map", before |-> map,
               input |-> addrangeinput(text, [start |-> s, end |-> e], c, segment, map)]
    /\ map' = addrange(text, [start |-> s, end |-> e], c, segment, map)
    /\ UNCHANGED <<text, inserted, defs, opts, series>>

(* SOT.text.map.addmatches( text, regex, setname, segment, map ) *)
InsertMatches ==
  \E regex \in InsertRegexes, c \in Names, segment \in BOOLEAN :
    /\ out = NoOut
    /\ n < MaxOps
    /\ n' = n + 1
    /\ op' = [kind |-> "matches", setname |-> c, segment |-> segment,
              global |-> regex.global, ranges |-> MatchRanges(regex.matches)]
    /\ out' = [kind |-> "map", before |-> map,
               input |-> addmatchesinput(text, regex, c, segment, map)]
    /\ map' = addmatches(text, regex, c, segment, map)
    /\ UNCHANGED <<text, inserted, defs, opts, series>>

InitInsert ==
  /\ text = TextOn(ShortLen)
  /\ map = <<>>
  /\ op = NoOp
  /\ inserted = {}
  /\ n = 0
  /\ defs = NoDefs
  /\ opts = NoOpts
  /\ out = NoOut
  /\ series = <<>>

NextInsert == BuildRange \/ BuildMatches \/ InsertRange \/ InsertMatches

SpecInsert == InitInsert /\ [][NextInsert]_vars

Valid(mp) ==
  \A k \in 1..Len(mp) :
    /\ mp[k].range.start < mp[k].range.end
    /\ k < Len(mp) => mp[k].range.end <= mp[k + 1].range.start

Intersects(seg, r) == seg.range.start < r.end /\ r.start < seg.range.end

NonEmptyOp ==
  /\ out.kind = "map"
  /\ op.global
  /\ \A j \in 1..Len(op.ranges) : op.ranges[j].start < op.ranges[j].end

(* C12: after an Overwrite-mode insertion of a non-empty range [s,e) into *)
(* a valid map the result holds the segment [s,e) with only the new       *)
(* origin, no other segment of the result intersects [s,e), and the       *)
(* result is ascending and non-overlapping.                                *)
C12_Overwrite ==
  (NonEmptyOp /\ ~op.segment /\ Valid(out.before)) =>
    /\ Valid(map)
    /\ \A j \in 1..Len(op.ranges) :
         \E k \in 1..Len(map) :
           /\ map[k] = mk(op.ranges[j].start, op.ranges[j].end,
                          neworigs(op.setname, op.ranges[j] @@ [setindex |-> j - 1]))
           /\ \A k2 \in 1..Len(map) : k2 # k => ~Intersects(map[k2], op.ranges[j])

(* the inserted range cut into an existing segment, which is gone *)
C12_Witness ==
  /\ NonEmptyOp
  /\ ~op.segment
  /\ op.kind = "range"
  /\ \E k \in 1..Len(out.before) :
       /\ out.before[k].range.start < op.ranges[1].start
       /\ op.ranges[1].start < out.before[k].range.end
  /\ Len(map) = 1

EmptyOp ==
  /\ out.kind = "map"
  /\ op.global
  /\ \A j \in 1..Len(op.ranges) : op.ranges[j].start = op.ranges[j].end

(* C13: inserting an empty range with addrange, or only empty matches     *)
(* with addmatches, in either mode and at any position, leaves the map    *)
(* exactly as it was.                                                      *)
C13_EmptyDropped == EmptyOp => map = out.before

(* the same, for an empty range that lies strictly inside no segment *)
C13_EmptyOutside ==
  (EmptyOp /\ op.segment
     /\ \A j \in 1..Len(op.ranges) : \A k \in 1..Len(out.before) :
          ~(out.before[k].range.start < op.ranges[j].start
              /\ op.ranges[j].start < out.before[k].range.end))
    => map = out.before

(* the existing segments the inserted range r cuts into without covering *)
CutBy(r) ==
  {k \in 1..Len(out.before) :
     /\ Intersects(out.before[k], r)
     /\ \/ out.before[k].range.start < r.start
        \/ out.before[k].range.end > r.end}

(* C23: in Overwrite mode an existing segment that starts before the new  *)
(* range's end and extends past it, or starts before the new range's      *)
(* start and reaches into it, is removed entirely: nothing of it is kept. *)
C23_RemovedEntirely ==
  (NonEmptyOp /\ ~op.segment /\ op.kind = "range") =>
    \A k \in CutBy(op.ranges[1]) :
      \A q \in out.before[k].range.start..(out.before[k].range.end - 1) :
        q \in Covered(map) => q \in RangeOffsets(op.ranges[1])

(* one existing segment reaches past the new range's end *)
C23_Witness ==
  /\ NonEmptyOp
  /\ ~op.segment
  /\ op.kind = "range"
  /\ \E k \in CutBy(op.ranges[1]) :
       /\ out.before[k].range.start >= op.ranges[1].start
       /\ out.before[k].range.end > op.ranges[1].end
  /\ Len(map) < Len(out.before) + 1

(* seg ends at or before, or starts at or after, every inserted range *)
Clear(seg) ==
  \A j \in 1..Len(op.ranges) :
    seg.range.end <= op.ranges[j].start \/ seg.range.start >= op.ranges[j].end

(* C24: an insertion in either mode leaves every existing segment that    *)
(* ends at or before the inserted range's start, and every one that       *)
(* starts at or after its end, in the result with the same range and      *)
(* origin list and in the same relative order.                             *)
C24_FrameKept ==
  (out.kind = "map" /\ op.global) =>
    SelectSeq(out.before, Clear)
      = SelectSeq(map, LAMBDA seg :
                         Clear(seg) /\ \E k \in 1..Len(out.before) : out.before[k] = seg)

(* a segment after the inserted range is kept while the map changes *)
C24_Witness ==
  /\ out.kind = "map"
  /\ op.global
  /\ op.kind = "range"
  /\ \E k \in 1..Len(out.before) :
       /\ out.before[k].range.start >= op.ranges[1].end
       /\ out.before[k] = map[Len(map)]
  /\ Len(map) > Len(out.before)

Render ==
  \E d \in DefsSet, o \in OptsSet :
    /\ out = NoOut
    /\ defs' = d
    /\ opts' = o
    /\ out' = [kind |-> "markup"] @@ markup(text, map, o, d)
    /\ UNCHANGED <<text, map, op, inserted, n, series>>

(* a second SOT.map.markup( text, map, opts, defs ) with the same arguments *)
RenderAgain ==
  /\ out.kind = "markup"
  /\ out' = [kind |-> "markup again", first |-> out.string]
              @@ markupfrom(text, map, opts, defs, out.left)
  /\ UNCHANGED <<text, map, op, inserted, n, defs, opts, series>>

NextRenderTwice == BuildRange \/ BuildMatches \/ Render \/ RenderAgain

SpecRenderTwice == InitRender /\ [][NextRenderTwice]_vars

Callbacks == {[kind |-> "same"], [kind |-> "add"], [kind |-> "fresh"], [kind |-> "nothing"]}

(* defs with a configured attribute, title="t", on every class, or none *)
AttrDefs ==
  {NoDefs,
   [c \in Names |-> [htmltag |-> <<>>, htmltagend |-> Undefined,
                     htmlattrs |-> <<[a |-> "title", v |-> <<"t">>]>>]]}

(* SOT.map.markup( text, map, opts, defs, callback ) *)
RenderWith ==
  \E d \in AttrDefs, callback \in Callbacks :
    /\ out = NoOut
    /\ defs' = d
    /\ out' = [kind |-> "markup with", callback |-> callback]
                @@ markupwith(text, map, opts, d, callback)
    /\ UNCHANGED <<text, map, op, inserted, n, opts, series>>

NextRenderWith == BuildRange \/ BuildMatches \/ RenderWith

SpecRenderWith == InitRender /\ [][NextRenderWith]_vars

NextRender == BuildRange \/ BuildMatches \/ Render

SpecRender == InitRender /\ [][NextRender]_vars

(* ----------------------------- C5 .. C9 -------------------------------- *)
(* the origin an emitted-tag record stands for *)
EvOrig(e) == map[e.k + 1].origs[e.j + 1]

EvSeg(e) == map[e.k + 1]

Opens == SelectSeq(out.events, LAMBDA e : e.kind = "open")

(* the tags of a string, in order: each the symbols from "<" or "</" up to *)
(* the closing ">"                                                         *)
RECURSIVE TagsOf(_, _, _)
TagsOf(s, k, cur) ==
  IF k > Len(s)
    THEN <<>>
    ELSE IF cur = <<>>
           THEN IF s[k] \in {"<", "</"}
                  THEN TagsOf(s, k + 1, <<s[k]>>)
                  ELSE TagsOf(s, k + 1, <<>>)
           ELSE IF s[k] = ">"
                  THEN <<cur>> \o TagsOf(s, k + 1, <<>>)
                  ELSE TagsOf(s, k + 1, Append(cur, s[k]))

OpenTagsOf(s) == SelectSeq(TagsOf(s, 1, <<>>), LAMBDA t : t[1] = "<")

RECURSIVE StripTags(_, _)
StripTags(s, intag) ==
  IF s = <<>>
    THEN <<>>
    ELSE IF intag
           THEN StripTags(Tail(s), Head(s) # ">")
           ELSE IF Head(s) \in {"<", "</"}
                  THEN StripTags(Tail(s), TRUE)
                  ELSE <<Head(s)>> \o StripTags(Tail(s), FALSE)

Has(t, sym) == \E k \in 1..Len(t) : t[k] = sym

(* every class has a closing tag *)
AllClosing == \A c \in Names : _tag(opts, defs, [setname |-> c], TRUE) # <<>>

RECURSIVE CommonPrefix(_, _)
CommonPrefix(xs, ys) ==
  IF xs # <<>> /\ ys # <<>> /\ Head(xs) = Head(ys)
    THEN 1 + CommonPrefix(Tail(xs), Tail(ys))
    ELSE 0

(* reading the emitted tags left to right with a stack of open origins *)
RECURSIVE Bracketed(_, _, _)
Bracketed(evs, k, stack) ==
  IF k > Len(evs)
    THEN stack = <<>>
    ELSE IF evs[k].kind = "open"
           THEN Bracketed(evs, k + 1, Append(stack, EvOrig(evs[k])))
           ELSE /\ stack # <<>>
                /\ stack[Len(stack)] = EvOrig(evs[k])
                /\ Bracketed(evs, k + 1, SubSeq(stack, 1, Len(stack) - 1))

(* C5: when every class has a closing tag the output is correctly          *)
(* bracketed: each closing tag closes the most recently opened tag still   *)
(* open, of the same origin, and nothing is left open at the end           *)
C5_Bracketed ==
  (out.kind = "markup" /\ AllClosing) => Bracketed(out.events, 1, <<>>)

(* C6: an opening tag is emitted for the origin at depth j of segment k    *)
(* exactly when j is at or beyond the common leading prefix of the origin  *)
(* lists of segments k and k-1, origins being the same only when name,     *)
(* range and sequence all agree                                            *)
C6_OpenDepth ==
  out.kind = "markup" =>
    \A k \in 1..Len(map) : \A j \in 1..Len(map[k].origs) :
      (\E x \in 1..Len(out.events) :
         /\ out.events[x].kind = "open"
         /\ out.events[x].k = k - 1
         /\ out.events[x].j = j - 1)
      <=> j > CommonPrefix(map[k].origs, IF k = 1 THEN <<>> ELSE map[k - 1].origs)

(* C7: an emitted opening tag carries L in its class exactly when its      *)
(* origin's range starts where the segment it is opened at starts; a tag   *)
(* reopening an origin at a later segment carries no L                     *)
C7_LeftMarker ==
  out.kind = "markup" =>
    LET tags == OpenTagsOf(out.string)
        opens == Opens
    IN /\ Len(tags) = Len(opens)
       /\ \A x \in 1..Len(opens) :
            /\ Has(tags[x], opens[x].setname)
            /\ Has(tags[x], "L")
                 <=> EvOrig(opens[x]).range.start = EvSeg(opens[x]).range.start
       /\ \A x \in 1..Len(opens) : \A y \in (x + 1)..Len(opens) :
            (EvOrig(opens[x]) = EvOrig(opens[y]) /\ opens[x].k < opens[y].k)
              => ~Has(tags[y], "L")

(* an origin is opened at its own start with L and reopened, at a later    *)
(* segment, without                                                        *)
C7_Witness ==
  /\ out.kind = "markup"
  /\ \E x \in 1..Len(Opens) : \E y \in (x + 1)..Len(Opens) :
       /\ EvOrig(Opens[x]) = EvOrig(Opens[y])
       /\ Opens[x].k < Opens[y].k
       /\ Has(OpenTagsOf(out.string)[x], "L")
       /\ ~Has(OpenTagsOf(out.string)[y], "L")

(* the last opening tag of origin o emitted at or before segment k *)
LastOpen(o, k) ==
  LET xs == {x \in 1..Len(Opens) : EvOrig(Opens[x]) = o /\ Opens[x].k + 1 <= k}
  IN IF xs = {} THEN 0 ELSE CHOOSE x \in xs : \A y \in xs : y <= x

(* C8: for every segment and every origin in it whose range ends where the *)
(* segment ends, the last opening tag emitted for that origin carries R    *)
(* and no other opening tag of that origin does, whatever the tag          *)
(* configuration                                                           *)
C8_RightMarker ==
  out.kind = "markup" =>
    LET tags == OpenTagsOf(out.string)
    IN \A k \in 1..Len(map) : \A j \in 1..Len(map[k].origs) :
         LET o == map[k].origs[j]
         IN o.range.end = map[k].range.end =>
              /\ LastOpen(o, k) # 0
              /\ \A x \in 1..Len(Opens) :
                   EvOrig(Opens[x]) = o => (Has(tags[x], "R") <=> x = LastOpen(o, k))

RECURSIVE Escaped(_)
Escaped(s) ==
  IF s = <<>>
    THEN <<>>
    ELSE (CASE Head(s) = "&" -> Amp
            [] Head(s) = ">" -> Gt
            [] Head(s) = "<" -> Lt
            [] OTHER -> <<Head(s)>>) \o Escaped(Tail(s))

(* C9: with the emitted tags deleted, the output is the escaped full text, *)
(* whatever the tag configuration                                          *)
C9_TextKept ==
  out.kind = "markup" => StripTags(out.string, FALSE) = Escaped(text)

(* no two different origins of the map share name and sequence *)
NoReuse ==
  \A k1 \in 1..Len(map), k2 \in 1..Len(map) :
    \A j1 \in 1..Len(map[k1].origs), j2 \in 1..Len(map[k2].origs) :
      LET o1 == map[k1].origs[j1]
          o2 == map[k2].origs[j2]
      IN (o1.setname = o2.setname /\ o1.range.setindex = o2.range.setindex) => o1 = o2

(* the opening tags of a string, in order, found by position: each the   *)
(* symbols from a "<" up to the next ">"                                   *)
OpeningTags(s) ==
  LET starts == {q \in 1..Len(s) : s[q] = "<"}
      nth(x) == CHOOSE q \in starts : Cardinality({r \in starts : r <= q}) = x
      close(q) == CHOOSE r \in q..Len(s) : s[r] = ">" /\ \A r2 \in q..(r - 1) : s[r2] # ">"
  IN [x \in 1..Cardinality(starts) |-> SubSeq(s, nth(x), close(nth(x)) - 1)]

ContainsSeq(t, seq) ==
  \E q \in 1..(Len(t) - Len(seq) + 1) : SubSeq(t, q, q + Len(seq) - 1) = seq

Configured(c) == "htmlattrs" \in DOMAIN defs[c]

(* the callback was called once per opening tag of the output, in order,  *)
(* each time with a map index and a layer index of the map                 *)
CalledPerTag ==
  LET tags == OpeningTags(out.string)
      calls == out.left.calls
  IN /\ Len(calls) = Len(tags)
     /\ \A x \in 1..Len(calls) :
          /\ calls[x].mapindex \in 0..(Len(map) - 1)
          /\ calls[x].layerindex \in 0..(Len(map[calls[x].mapindex + 1].origs) - 1)
          /\ calls[x].class
               = map[calls[x].mapindex + 1].origs[calls[x].layerindex + 1].setname
     /\ \A x \in 1..(Len(calls) - 1) :
          \/ calls[x].mapindex < calls[x + 1].mapindex
          \/ /\ calls[x].mapindex = calls[x + 1].mapindex
             /\ calls[x].layerindex < calls[x + 1].layerindex

(* C22: the callback is called once for each emitted opening tag with the *)
(* tag's map index and layer index, and the tag holds the static          *)
(* attributes (class, configured attributes) with the callback's result   *)
(* merged over them: a static attribute the result does not mention is    *)
(* still written.                                                          *)
C22_MergedOver ==
  out.kind = "markup with" =>
    /\ CalledPerTag
    /\ \A x \in 1..Len(out.left.calls) :
         LET tag == OpeningTags(out.string)[x]
             call == out.left.calls[x]
         IN /\ ContainsSeq(tag, <<"class", "=\"", call.class>>)
            /\ Configured(call.class) => ContainsSeq(tag, <<"title", "=\"", "t", "\"">>)
            /\ out.callback.kind \in {"add", "fresh"} =>
                 ContainsSeq(tag, <<"id", "=\"">> \o IdOf(call.mapindex, call.layerindex))

(* C22 amended: the callback is called once for each emitted opening tag  *)
(* with the tag's map index and layer index, and the tag holds exactly    *)
(* the attributes the callback returns: the static ones only if the       *)
(* callback hands them back.                                               *)
C22_ResultWritten ==
  out.kind = "markup with" =>
    /\ CalledPerTag
    /\ \A x \in 1..Len(out.left.calls) :
         LET tag == OpeningTags(out.string)[x]
             call == out.left.calls[x]
             static == out.callback.kind \in {"same", "add"}
             id == out.callback.kind \in {"add", "fresh"}
         IN /\ ContainsSeq(tag, <<"class", "=\"", call.class>>) <=> static
            /\ Has(tag, "title") <=> (static /\ Configured(call.class))
            /\ ContainsSeq(tag, <<"id", "=\"">> \o IdOf(call.mapindex, call.layerindex))
                 <=> id
            /\ out.callback.kind = "nothing" => Len(tag) = 2

(* a callback returning the id alone, on nested tags with a configured    *)
(* attribute                                                               *)
C22_Witness ==
  /\ out.kind = "markup with"
  /\ out.callback.kind = "fresh"
  /\ \A c \in Names : Configured(c)
  /\ \E k \in 1..Len(map) : Len(map[k].origs) = 2
  /\ Len(out.left.calls) >= 2

(***************************************************************************)
(* SOT.text.map.replaceall / replace                                       *)
(***************************************************************************)

(* String.prototype.replace substitution of the replacement string for a  *)
(* string pattern: "$$" is "$", "$&" is the matched text, "$`" and "$'"   *)
(* are the text before and after the match; here the match is the whole   *)
(* token, so both are empty.                                               *)
RECURSIVE GetSubstitution(_, _)
GetSubstitution(repl, matched) ==
  IF repl = <<>> THEN <<>>
  ELSE IF Head(repl) = "$" /\ Len(repl) > 1
       THEN CASE repl[2] = "$" -> <<"$">> \o GetSubstitution(SubSeq(repl, 3, Len(repl)), matched)
              [] repl[2] = "&" -> matched \o GetSubstitution(SubSeq(repl, 3, Len(repl)), matched)
              [] repl[2] \in {"`", "'"} -> GetSubstitution(SubSeq(repl, 3, Len(repl)), matched)
              [] OTHER -> <<"$">> \o GetSubstitution(Tail(repl), matched)
       ELSE <<Head(repl)>> \o GetSubstitution(Tail(repl), matched)

(* replacewiths[setname]; a missing key is undefined, which replace()     *)
(* turns into the string "undefined"                                       *)
Lookup(replacewiths, setname) ==
  IF setname \in DOMAIN replacewiths THEN replacewiths[setname] ELSE Undefined

(* token.replace( token, repl ): an empty token matches at 0 as well *)
tokenreplace(token, repl) == GetSubstitution(repl, token)

MutExactAlways(seg) == TRUE

(* one origin whose range is the segment's own range *)
Exact(seg) ==
  /\ Len(seg.origs) = 1
  /\ seg.origs[1].range.start = seg.range.start
  /\ seg.origs[1].range.end = seg.range.end

RECURSIVE replaceallloop(_, _, _, _, _, _)
replaceallloop(txt, mp, replacewiths, i, nn, newtext) ==
  IF i > Len(mp) THEN newtext \o slice(txt, nn, Len(txt))
  ELSE LET token == slice(txt, mp[i].range.start, mp[i].range.end)
           lead  == newtext \o slice(txt, nn, mp[i].range.start)
       IN replaceallloop(txt, mp, replacewiths, i + 1, mp[i].range.end,
            IF Exact(mp[i])
            THEN lead \o tokenreplace(token, Lookup(replacewiths, mp[i].origs[1].setname))
            ELSE lead \o token)

replaceall(txt, mp, replacewiths) ==
  IF Len(mp) = 0 THEN txt
  ELSE replaceallloop(txt, mp, replacewiths, 1, 0, <<>>)

(* i is the 0-based index the caller passes *)
replace(txt, mp, i, newtext) ==
  IF i >= Len(mp) THEN txt
  ELSE replaceall(txt, <<mp[i + 1]>>, (mp[i + 1].origs[1].setname :> newtext))

Replacements == {<<>>, <<"y">>, <<"y", "z">>, <<"$", "&">>, <<"$", "$", "y">>, Undefined}

(* SOT.text.map.replace( text, map, i, newtext ) *)
Replace ==
  \E i \in 0..(Len(map) + 1), newtext \in Replacements :
    /\ out = NoOut
    /\ out' = [kind |-> "replace", i |-> i, newtext |-> newtext,
               text |-> replace(text, map, i, newtext)]
    /\ UNCHANGED <<text, map, op, inserted, n, defs, opts, series>>

ReplaceWiths == UNION {[D -> Replacements] : D \in SUBSET Names}

(* SOT.text.map.replaceall( text, map, replacewiths ) *)
ReplaceAll ==
  \E replacewiths \in ReplaceWiths :
    /\ out = NoOut
    /\ out' = [kind |-> "replaceall", replacewiths |-> replacewiths,
               text |-> replaceall(text, map, replacewiths)]
    /\ UNCHANGED <<text, map, op, inserted, n, defs, opts, series>>

NextReplace == BuildRange \/ BuildMatches \/ Replace \/ ReplaceAll

SpecReplace == InitRender /\ [][NextReplace]_vars

(* the segment's range is one whole inserted range and nothing overlaps it *)
SoleUntrimmed(seg) ==
  /\ Len(seg.origs) = 1
  /\ <<seg.origs[1].range.start, seg.origs[1].range.end>> = <<seg.range.start, seg.range.end>>

(* C10: replace returns the text unchanged when i is at or past the end   *)
(* of the map or segment i has several origins or a sole origin whose     *)
(* range differs from the segment's range; when segment i is exact the    *)
(* text before and after the segment is kept and the segment's substring  *)
(* is replaced by the replacement (literally when it has no "$").         *)
C10_Replace ==
  out.kind = "replace" =>
    IF out.i >= Len(map) THEN out.text = text
    ELSE LET seg == map[out.i + 1]
             s == seg.range.start
             e == seg.range.end
             tail == Len(text) - e
         IN IF ~SoleUntrimmed(seg) THEN out.text = text
            ELSE /\ Len(out.text) >= s + tail
                 /\ SubSeq(out.text, 1, s) = SubSeq(text, 1, s)
                 /\ SubSeq(out.text, Len(out.text) - tail + 1, Len(out.text))
                      = SubSeq(text, e + 1, Len(text))
                 /\ (\A k \in 1..Len(out.newtext) : out.newtext[k] # "$") =>
                      SubSeq(out.text, s + 1, Len(out.text) - tail) = out.newtext

(* a non-exact segment and an exact one have both been asked for *)
C10_Witness ==
  /\ out.kind = "replace"
  /\ out.i < Len(map)
  /\ Len(map) >= 2
  /\ Len(map[out.i + 1].origs) = 2
  /\ out.newtext = <<"y">>
  /\ out.text = text

C10_WitnessExact ==
  /\ out.kind = "replace"
  /\ out.i < Len(map)
  /\ SoleUntrimmed(map[out.i + 1])
  /\ out.newtext = <<"y", "z">>
  /\ out.text # text

RECURSIVE Flatten(_)
Flatten(ss) == IF ss = <<>> THEN <<>> ELSE Head(ss) \o Flatten(Tail(ss))

(* the text between the previous segment (or the start) and segment k *)
GapBefore(k) ==
  SubSeq(text, (IF k = 1 THEN 0 ELSE map[k - 1].range.end) + 1, map[k].range.start)

(* the stated piece for segment k: its replacement if exact, else its text *)
PieceFor(k, replacewiths) ==
  IF SoleUntrimmed(map[k])
  THEN replacewiths[map[k].origs[1].setname]
  ELSE SubSeq(text, map[k].range.start + 1, map[k].range.end)

ExpectedAll(replacewiths) ==
  Flatten([k \in 1..Len(map) |-> GapBefore(k) \o PieceFor(k, replacewiths)])
    \o SubSeq(text, (IF Len(map) = 0 THEN 0 ELSE map[Len(map)].range.end) + 1, Len(text))

AllRegistered(replacewiths) ==
  \A k \in 1..Len(map) :
    SoleUntrimmed(map[k]) => map[k].origs[1].setname \in DOMAIN replacewiths

(* C11: replaceall returns, left to right, every gap's text, every        *)
(* non-exact segment's text and, for every exact segment, the replacement *)
(* registered under its sole origin's name.                                *)
C11_Concatenation ==
  (out.kind = "replaceall" /\ AllRegistered(out.replacewiths)) =>
    out.text = ExpectedAll(out.replacewiths)

NoDollar(replacewiths) ==
  \A c \in DOMAIN replacewiths :
    \A k \in 1..Len(replacewiths[c]) : replacewiths[c][k] # "$"

(* the concatenation does hold when no replacement contains a "$" *)
C11_PlainConcatenation ==
  (out.kind = "replaceall" /\ AllRegistered(out.replacewiths)
     /\ NoDollar(out.replacewiths)) =>
    out.text = ExpectedAll(out.replacewiths)

(* no exact segment's set name has an entry in the table *)
NoneRegistered(replacewiths) ==
  \A k \in 1..Len(map) :
    SoleUntrimmed(map[k]) => map[k].origs[1].setname \notin DOMAIN replacewiths

(* C29: replaceall leaves the text of an exact segment unchanged when the  *)
(* replacements table has no entry for that segment's set name             *)
C29_MissingKept ==
  (out.kind = "replaceall" /\ NoneRegistered(out.replacewiths)) =>
    out.text = text

(* what the code does hold to: without any exact segment the text is kept *)
C29_NoExactKept ==
  (out.kind = "replaceall" /\ \A k \in 1..Len(map) : ~SoleUntrimmed(map[k])) =>
    out.text = text

(***************************************************************************)
(* SOT.PatternSeries                                                       *)
(***************************************************************************)

IndexOf(ser, cls) ==
  IF \E k \in 1..Len(ser) : ser[k].cls = cls
  THEN CHOOSE k \in 1..Len(ser) : ser[k].cls = cls
  ELSE 0

(* defs[cls] = entry: an existing key keeps its place, a new key goes last *)
Put(ser, entry) ==
  IF IndexOf(ser, entry.cls) > 0
  THEN [ser EXCEPT ![IndexOf(ser, entry.cls)] = entry]
  ELSE Append(ser, entry)

NoRange == [start |-> 0, end |-> 0]
NoRegex == [global |-> FALSE, matches |-> <<>>]

RegexEntry(cls, regex) == [cls |-> cls, kind |-> "regex", regex |-> regex, range |-> NoRange]
RangeEntry(cls, range) == [cls |-> cls, kind |-> "range", regex |-> NoRegex, range |-> range]

(* this.addregex( regex, cls ) with a RegExp object *)
addregex(ser, regex, cls) == Put(ser, RegexEntry(cls, regex))

(* this.addrange( range, cls ): reading .range.start of a regex entry raises *)
addrangeRaises(ser, cls) ==
  IndexOf(ser, cls) > 0 /\ ser[IndexOf(ser, cls)].kind = "regex"

seriesaddrange(ser, range, cls) ==
  IF IndexOf(ser, cls) = 0 \/ ser[IndexOf(ser, cls)].range # range
  THEN Put(ser, RangeEntry(cls, range))
  ELSE ser

RECURSIVE buildmatchesmap(_, _, _, _)
buildmatchesmap(ser, k, txt, mp) ==
  IF k > Len(ser) THEN mp
  ELSE buildmatchesmap(ser, k + 1, txt,
         IF ser[k].kind = "regex"
         THEN addmatches(txt, ser[k].regex, ser[k].cls, TRUE, mp)
         ELSE mp)

RECURSIVE buildrangesmap(_, _, _, _)
buildrangesmap(ser, k, txt, mp) ==
  IF k > Len(ser) THEN mp
  ELSE buildrangesmap(ser, k + 1, txt,
         IF ser[k].kind = "range"
         THEN addrange(txt, ser[k].range, ser[k].cls, TRUE, mp)
         ELSE mp)

RECURSIVE buildinorder(_, _, _, _)
buildinorder(ser, k, txt, mp) ==
  IF k > Len(ser) THEN mp
  ELSE buildinorder(ser, k + 1, txt,
         IF ser[k].kind = "regex"
         THEN addmatches(txt, ser[k].regex, ser[k].cls, TRUE, mp)
         ELSE addrange(txt, ser[k].range, ser[k].cls, TRUE, mp))

MutNeverOverlay(overlayranges) == FALSE

Overlay(overlayranges) == overlayranges

buildmap(ser, txt, mp, overlayranges) ==
  IF Overlay(overlayranges)
  THEN buildrangesmap(ser, 1, txt, buildmatchesmap(ser, 1, txt, mp))
  ELSE buildinorder(ser, 1, txt, mp)

Regexes ==
  {[global |-> TRUE, matches |-> ms] : ms \in NonEmptyMatchListsOn(ShortLen)}
    \cup {[global |-> FALSE, matches |-> <<[index |-> 0, len |-> 1]>>]}

Registering == out.kind \in {"none", "TypeError"}

SeriesAddRegex ==
  \E cls \in Names, regex \in Regexes :
    /\ Registering
    /\ n < MaxRegs
    /\ series' = addregex(series, regex, cls)
    /\ n' = n + 1
    /\ out' = NoOut
    /\ op' = NoOp
    /\ UNCHANGED <<text, map, inserted, defs, opts>>

SeriesAddRange ==
  \E cls \in Names, s \in 0..ShortLen, e \in 0..ShortLen :
    /\ Registering
    /\ n < MaxRegs
    /\ s # e
    /\ n' = n + 1
    /\ IF addrangeRaises(series, cls)
       THEN /\ out' = [kind |-> "TypeError"]
            /\ UNCHANGED series
       ELSE /\ out' = NoOut
            /\ series' = seriesaddrange(series, [start |-> s, end |-> e], cls)
    /\ op' = NoOp
    /\ UNCHANGED <<text, map, inserted, defs, opts>>

(* a pattern string: new RegExp raises a SyntaxError on it, or it compiles *)
(* to a regex that has the required g flag                                 *)
RegexStrs ==
  {[compiles |-> FALSE, regex |-> NoRegex],
   [compiles |-> TRUE,
    regex |-> [global |-> TRUE, matches |-> <<[index |-> 0, len |-> 1]>>]]}

(* this.addregexstr( regexstr, cls ): the catch block returns null before *)
(* defs is touched                                                         *)
addregexstr(ser, regexstr, cls) ==
  IF ~regexstr.compiles THEN ser ELSE Put(ser, RegexEntry(cls, regexstr.regex))

(* addregexstr, also as reached from addregex and add with a string *)
SeriesAddRegexStr ==
  \E cls \in Names, regexstr \in RegexStrs :
    /\ Registering
    /\ n < MaxRegs
    /\ series' = addregexstr(series, regexstr, cls)
    /\ n' = n + 1
    /\ out' = NoOut
    /\ op' = [kind |-> "addregexstr", setname |-> cls, ranges |-> <<>>,
              compiles |-> regexstr.compiles, before |-> series]
    /\ UNCHANGED <<text, map, inserted, defs, opts>>

(* map = patterns.buildmap( text, [], overlayranges ) *)
SeriesBuildMap ==
  \E overlayranges \in BOOLEAN :
    /\ Registering
    /\ map' = buildmap(series, text, <<>>, overlayranges)
    /\ out' = [kind |-> "buildmap", overlayranges |-> overlayranges]
    /\ UNCHANGED <<text, op, inserted, n, defs, opts, series>>

NextSeries == SeriesAddRegex \/ SeriesAddRange \/ SeriesAddRegexStr \/ SeriesBuildMap

SpecSeries == InitRender /\ [][NextSeries]_vars

KindOf(cls) == series[IndexOf(series, cls)].kind

(* C4 as stated: with default options every segment's origins are in      *)
(* registration order, whether the entries are regexes or ranges.         *)
C4_RegistrationOrder ==
  (out.kind = "buildmap" /\ out.overlayranges) =>
    \A k \in 1..Len(map) : \A x, y \in 1..Len(map[k].origs) :
      x < y => IndexOf(series, map[k].origs[x].setname)
                 < IndexOf(series, map[k].origs[y].setname)

(* C4 amended: with default options every segment's origins are the regex *)
(* entries' origins in registration order followed by the range entries'  *)
(* origins in registration order; a range's origin follows a regex's      *)
(* whichever was registered first.                                         *)
C4_RegexThenRange ==
  (out.kind = "buildmap" /\ out.overlayranges) =>
    \A k \in 1..Len(map) : \A x, y \in 1..Len(map[k].origs) :
      x < y =>
        LET P == map[k].origs[x].setname
            Q == map[k].origs[y].setname
        IN \/ KindOf(P) = "regex" /\ KindOf(Q) = "range"
           \/ /\ KindOf(P) = KindOf(Q)
              /\ IndexOf(series, P) < IndexOf(series, Q)

(* a range registered before a regex, both covering one segment *)
C4_Witness ==
  /\ out.kind = "buildmap"
  /\ out.overlayranges
  /\ Len(series) = 2
  /\ series[1].kind = "range"
  /\ series[2].kind = "regex"
  /\ \E k \in 1..Len(map) : Len(map[k].origs) = 2

(* the registry without its regex entries that lack the g flag *)
GlobalOnly(ser) ==
  SelectSeq(ser, LAMBDA entry : entry.kind = "range" \/ entry.regex.global)

(* C14: a regex without the g flag adds nothing and raises nothing: the   *)
(* map buildmap returns is the map it returns with that entry absent.     *)
C14_NonGlobalSkipped ==
  out.kind = "buildmap" =>
    map = buildmap(GlobalOnly(series), text, <<>>, out.overlayranges)

(* a regex without the g flag registered before another entry *)
C14_Witness ==
  /\ out.kind = "buildmap"
  /\ Len(series) = 2
  /\ series[1].kind = "regex"
  /\ ~series[1].regex.global
  /\ Len(map) >= 1

FailedRegistration ==
  /\ op.kind = "addregexstr"
  /\ ~op.compiles
  /\ out.kind # "TypeError"

(* C15: after registering a pattern string that fails to compile the      *)
(* registry has no entry under that name and every other entry is as      *)
(* before.                                                                 *)
C15_NoEntry ==
  FailedRegistration =>
    /\ IndexOf(series, op.setname) = 0
    /\ series = SelectSeq(op.before, LAMBDA entry : entry.cls # op.setname)

(* what does hold: the registry is exactly as before, the entry already   *)
(* under that name included                                                *)
C15_RegistryKept == FailedRegistration => series = op.before

(***************************************************************************)
(* SOT.text.map.range: next, isposin, atpos, after, before                 *)
(***************************************************************************)

(* map[Math.round(i)] of an index outside the array is undefined: reading *)
(* its range raises a TypeError                                            *)
Raises == 0 - 2

(* Math.round of the non-negative a/d *)
Round(a, d) == (2 * a + d) \div (2 * d)

(* the bisection of next: i = a/d and j = b/d; each turn halves j, then   *)
(* moves i up or down by it                                                *)
MutBisectTop(pos, mp, a, b, d) == Len(mp) - 1

RECURSIVE _bisect(_, _, _, _, _)
_bisect(pos, mp, a, b, d) ==
  IF Round(b, d) = 0 THEN Round(a, d)
  ELSE IF Round(a, d) >= Len(mp) THEN Raises
  ELSE IF mp[Round(a, d) + 1].range.end <= pos
       THEN _bisect(pos, mp, 2 * a + b, b, 2 * d)
       ELSE _bisect(pos, mp, 2 * a - b, b, 2 * d)

MutNoScan(pos, mp, i) == i

RECURSIVE _scan(_, _, _)
_scan(pos, mp, i) ==
  IF i < Len(mp) /\ mp[i + 1].range.end <= pos THEN _scan(pos, mp, i + 1) ELSE i

next(pos, mp) ==
  IF Len(mp) = 0 THEN 0 - 1
  ELSE IF mp[1].range.end > pos THEN _scan(pos, mp, 0)
  ELSE IF pos < mp[Len(mp)].range.start
       THEN LET i == _bisect(pos, mp, Len(mp), Len(mp), 2)
            IN IF i = Raises THEN Raises ELSE _scan(pos, mp, i)
       ELSE _scan(pos, mp, Len(mp) - 1)

MutNoStartCheck(pos, seg) == pos <= seg.range.end

WithinInclusive(pos, seg) == pos >= seg.range.start /\ pos <= seg.range.end

isposin(pos, mp, i) ==
  i >= 0 /\ i < Len(mp) /\ WithinInclusive(pos, mp[i + 1])

atpos(pos, mp) ==
  LET i == next(pos, mp)
  IN IF i = Raises THEN Raises
     ELSE IF ~isposin(pos, mp, i) THEN 0 - 1 ELSE i

after(pos, mp) ==
  LET i == next(pos, mp)
  IN IF i = Raises THEN Raises
     ELSE IF isposin(pos, mp, i) THEN i + 1 ELSE i

before(pos, mp) ==
  LET i == next(pos, mp)
      i1 == IF i >= 0 /\ isposin(pos, mp, i) THEN i + 1 ELSE i
  IN IF i = Raises THEN Raises
     ELSE IF i1 >= 0 THEN Max(0, i1 - 1) ELSE i1

MutBeforeOrAtMid(pos, left, right) ==
  2 * pos <= (right.range.start - left.range.end) + 2 * left.range.end

(* pos < ((right.start - left.end) / 2) + left.end, without the fraction *)
BeforeMid(pos, left, right) ==
  2 * pos < (right.range.start - left.range.end) + 2 * left.range.end

nearest(pos, mp) ==
  LET i0 == next(pos, mp)
      i == Min(i0, Len(mp) - 1)
  IN IF i0 = Raises THEN Raises
     ELSE IF i > 0 /\ ~isposin(pos, mp, i) /\ BeforeMid(pos, mp[i], mp[i + 1])
          THEN i - 1
          ELSE i

(* the matches a regex yields, one per run of cells: a cell is a gap, the *)
(* first of a match, or a further cell of the match before it              *)
RECURSIVE RunLen(_, _)
RunLen(f, c) ==
  IF c + 1 < PosLen /\ f[c + 1] = "cont" THEN 1 + RunLen(f, c + 1) ELSE 1

RECURSIVE MatchesFrom(_, _)
MatchesFrom(f, c) ==
  IF c >= PosLen THEN <<>>
  ELSE IF f[c] = "start"
       THEN <<[index |-> c, len |-> RunLen(f, c)]>> \o MatchesFrom(f, c + 1)
       ELSE MatchesFrom(f, c + 1)

CellLabels ==
  {f \in [0..(PosLen - 1) -> {"gap", "start", "cont"}] :
     /\ f[0] # "cont"
     /\ \A c \in 1..(PosLen - 1) : f[c] = "cont" => f[c - 1] # "gap"}

Positions == (0 - 1)..(PosLen + 1)

InitPos ==
  /\ text = TextOn(PosLen)
  /\ \E f \in CellLabels :
       map = addmatches(text, [global |-> TRUE, matches |-> MatchesFrom(f, 0)],
                        "a", TRUE, <<>>)
  /\ op = NoOp
  /\ inserted = {}
  /\ n = 0
  /\ defs = NoDefs
  /\ opts = NoOpts
  /\ out = NoOut
  /\ series = <<>>

AtPos ==
  \E pos \in Positions :
    /\ out = NoOut
    /\ out' = [kind |-> "atpos", pos |-> pos, i |-> atpos(pos, map)]
    /\ UNCHANGED <<text, map, op, inserted, n, defs, opts, series>>

After ==
  \E pos \in Positions :
    /\ out = NoOut
    /\ out' = [kind |-> "after", pos |-> pos, i |-> after(pos, map)]
    /\ UNCHANGED <<text, map, op, inserted, n, defs, opts, series>>

Before ==
  \E pos \in Positions :
    /\ out = NoOut
    /\ out' = [kind |-> "before", pos |-> pos, i |-> before(pos, map)]
    /\ UNCHANGED <<text, map, op, inserted, n, defs, opts, series>>

Nearest ==
  \E pos \in Positions :
    /\ out = NoOut
    /\ out' = [kind |-> "nearest", pos |-> pos, i |-> nearest(pos, map)]
    /\ UNCHANGED <<text, map, op, inserted, n, defs, opts, series>>

NextOf ==
  \E pos \in Positions :
    /\ out = NoOut
    /\ out' = [kind |-> "next", pos |-> pos, i |-> next(pos, map)]
    /\ UNCHANGED <<text, map, op, inserted, n, defs, opts, series>>

NextPos == AtPos \/ After \/ Before \/ Nearest \/ NextOf

SpecPos == InitPos /\ [][NextPos]_vars

(* the 0-based indexes of the segments whose [start,end) holds pos *)
Holding(pos) ==
  {k \in 0..(Len(map) - 1) :
     map[k + 1].range.start <= pos /\ pos < map[k + 1].range.end}

(* C18: atpos returns the index of the segment whose [start,end) holds    *)
(* pos, and -1 when pos is in a gap, before the first segment, at or      *)
(* after the last segment's end, or the map is empty.                     *)
C18_AtPos ==
  out.kind = "atpos" =>
    IF Holding(out.pos) # {} THEN out.i \in Holding(out.pos) ELSE out.i = 0 - 1

(* pos is the end of one segment and lies in the gap before the next *)
C18_Witness ==
  /\ out.kind = "atpos"
  /\ Len(map) >= 3
  /\ \E k \in 1..(Len(map) - 1) :
       /\ map[k].range.end = out.pos
       /\ map[k + 1].range.start > out.pos
       /\ map[k + 1].range.end <= map[Len(map)].range.start
  /\ out.i = 0 - 1

(* the 0-based indexes of the segments starting at or after pos *)
StartingFrom(pos) ==
  {k \in 0..(Len(map) - 1) : map[k + 1].range.start >= pos}

(* the 0-based indexes of the segments lying entirely before pos *)
EndedBy(pos) ==
  {k \in 0..(Len(map) - 1) : map[k + 1].range.end <= pos}

Least(S) == CHOOSE x \in S : \A y \in S : x <= y
Greatest(S) == CHOOSE x \in S : \A y \in S : x >= y

AfterAsStated(pos) ==
  IF Holding(pos) # {} THEN Least(Holding(pos)) + 1
  ELSE IF StartingFrom(pos) # {} THEN Least(StartingFrom(pos))
  ELSE Len(map)

(* C19: after returns the index of the first segment starting at or after *)
(* pos, the index following the segment that holds pos when one does, and *)
(* the map length when there is no such segment.                           *)
C19_After == out.kind = "after" => out.i = AfterAsStated(out.pos)

(* C19 amended: as stated on a non-empty map; -1 on the empty map *)
C19_AfterOrNone ==
  out.kind = "after" =>
    out.i = IF Len(map) = 0 THEN 0 - 1 ELSE AfterAsStated(out.pos)

(* pos inside a segment that the bisection has to find *)
C19_Witness ==
  /\ out.kind = "after"
  /\ Len(map) >= 4
  /\ Holding(out.pos) # {}
  /\ out.i >= 2
  /\ out.i < Len(map) - 1

(* C20: on a non-empty map before returns the index of the segment that   *)
(* holds pos, else the index of the last segment lying entirely before    *)
(* pos, 0 when pos precedes every segment; always an index of the map.    *)
C20_Before ==
  (out.kind = "before" /\ Len(map) > 0) =>
    /\ out.i \in 0..(Len(map) - 1)
    /\ out.i = IF Holding(out.pos) # {} THEN Least(Holding(out.pos))
               ELSE IF EndedBy(out.pos) # {} THEN Greatest(EndedBy(out.pos))
               ELSE 0

(* pos in a gap between two segments, found by the bisection *)
C20_Witness ==
  /\ out.kind = "before"
  /\ Len(map) >= 4
  /\ Holding(out.pos) = {}
  /\ out.i >= 1
  /\ out.i < Len(map) - 2

(* C21: on a non-empty map nearest returns a valid index: the segment     *)
(* holding pos; in the gap between segments i-1 and i, i-1 when pos is    *)
(* strictly before the middle of the gap and i otherwise; the first       *)
(* segment when pos precedes all, the last when pos follows all.          *)
C21_Nearest ==
  (out.kind = "nearest" /\ Len(map) > 0) =>
    /\ out.i \in 0..(Len(map) - 1)
    /\ out.i =
         IF Holding(out.pos) # {} THEN Least(Holding(out.pos))
         ELSE IF EndedBy(out.pos) = {} THEN 0
         ELSE IF StartingFrom(out.pos) = {} THEN Len(map) - 1
         ELSE LET l == Greatest(EndedBy(out.pos))
                  r == Least(StartingFrom(out.pos))
              IN IF 2 * out.pos < map[l + 1].range.end + map[r + 1].range.start
                 THEN l ELSE r

(* pos exactly in the middle of a gap: the segment on the right *)
C21_Witness ==
  /\ out.kind = "nearest"
  /\ Len(map) >= 3
  /\ out.i >= 1
  /\ Holding(out.pos) = {}
  /\ 2 * out.pos = map[out.i].range.end + map[out.i + 1].range.start

(* the 0-based indexes of the segments whose end exceeds pos *)
EndingAfter(pos) ==
  {k \in 0..(Len(map) - 1) : map[k + 1].range.end > pos}

(* C26: next returns the smallest index whose segment end exceeds pos,    *)
(* the map length when no segment end exceeds pos, -1 for an empty map,   *)
(* and never reads a map index outside 0..length-1.                       *)
C26_Next ==
  out.kind = "next" =>
    /\ out.i # Raises
    /\ out.i = IF Len(map) = 0 THEN 0 - 1
               ELSE IF EndingAfter(out.pos) # {} THEN Least(EndingAfter(out.pos))
               ELSE Len(map)

(* a search that goes through the bisection and ends in the lower half *)
C26_Witness ==
  /\ out.kind = "next"
  /\ Len(map) >= 5
  /\ map[1].range.end <= out.pos
  /\ out.pos < map[Len(map)].range.start
  /\ out.i = 1


(***************************************************************************)
(* UI.stylotroneditor.Styler on a UI.TextEditor: text is the editor's      *)
(* innerText, map is _i.currenttextmap, op the operation that ran last,    *)
(* out what the last remarkup was given and returned                       *)
(***************************************************************************)
EditLen == 2

EditChars == {"x", "y"}

EditTexts == UNION {[1..k -> EditChars] : k \in 0..EditLen}

(* null: no map is cached. The empty map [] is a map (and truthy) *)
Null == <<NoSeg>>

(* text.matchAll( /x/g ): one match for every "x" of the text *)
RECURSIVE MatchAllX(_, _)
MatchAllX(txt, k) ==
  IF k > Len(txt)
    THEN <<>>
    ELSE (IF txt[k] = "x" THEN <<[index |-> k - 1, len |-> 1]>> ELSE <<>>)
           \o MatchAllX(txt, k + 1)

(* _i.patterns: the regex /x/g registered under "a", as it acts on txt *)
patterns(txt) == <<RegexEntry("a", [global |-> TRUE, matches |-> MatchAllX(txt, 1)])>>

MutCacheKept(currenttextmap) == currenttextmap

(* oneditorbeforetextchange: _i.currenttextmap = null *)
oneditorbeforetextchange(currenttextmap) == Null

(* oneditorremarkup( text, e2 ): the cache is built if there is none and   *)
(* the ranges are laid over it; fullmap is the map handed to markupmap,    *)
(* whose result is returned                                                *)
oneditorremarkup(txt, currenttextmap) ==
  LET cache == IF currenttextmap = Null
                 THEN buildmatchesmap(patterns(txt), 1, txt, <<>>)
                 ELSE currenttextmap
  IN [currenttextmap |-> cache,
      fullmap |-> buildrangesmap(patterns(txt), 1, txt, cache)]

(* textchg -> resetselrange -> statechanged (true: e2.textchanged) ->      *)
(* remarkup( e2 ) on the editor's innerText                                *)
textchg(kind, txt, prior, currenttextmap) ==
  LET r == oneditorremarkup(txt, currenttextmap)
  IN /\ text' = txt
     /\ map' = r.currenttextmap
     /\ op' = [kind |-> kind, setname |-> "", ranges |-> <<>>]
     /\ out' = [kind |-> "remarkup", text |-> txt, before |-> prior,
                used |-> r.currenttextmap, fullmap |-> r.fullmap]

InitStyler ==
  /\ text = <<>>
  /\ map = Null
  /\ op = NoOp
  /\ inserted = {}
  /\ n = 0
  /\ defs = NoDefs
  /\ opts = NoOpts
  /\ out = NoOut
  /\ series = <<>>

(* between beforeinput and input the browser alone acts *)
Idle == op.kind # "beforeinput"

(* texteditor.put( newtext ) *)
EditorPut ==
  \E newtext \in EditTexts :
    /\ Idle
    /\ textchg("put", newtext, map, oneditorbeforetextchange(map))
    /\ UNCHANGED <<inserted, n, defs, opts, series>>

(* texteditor.insert( pastetext, e2, range ) *)
EditorInsert ==
  \E pastetext \in EditTexts, s \in 0..Len(text), e \in 0..Len(text) :
    /\ Idle
    /\ s <= e
    /\ Len(text) - (e - s) + Len(pastetext) <= EditLen
    /\ textchg("insert", slice(text, 0, s) \o pastetext \o slice(text, e, Len(text)),
               map, oneditorbeforetextchange(map))
    /\ UNCHANGED <<inserted, n, defs, opts, series>>

(* onbeforeinput: textwillchg; the browser has not changed the text yet *)
OnBeforeInput ==
  /\ Idle
  /\ map' = oneditorbeforetextchange(map)
  /\ op' = [kind |-> "beforeinput", setname |-> "", ranges |-> <<>>]
  /\ UNCHANGED <<text, inserted, n, defs, opts, out, series>>

(* oninput: the browser has changed the text; textchg *)
OnInput ==
  \E newtext \in EditTexts :
    /\ op.kind = "beforeinput"
    /\ textchg("input", newtext, map, map)
    /\ UNCHANGED <<inserted, n, defs, opts, series>>

(* texteditor.refresh(): remarkup of the unchanged text *)
Refresh ==
  /\ Idle
  /\ textchg("refresh", text, map, map)
  /\ UNCHANGED <<inserted, n, defs, opts, series>>

(* styler.textmap( recreate ) *)
TextMap ==
  \E recreate \in BOOLEAN :
    /\ Idle
    /\ map' = IF recreate \/ map = Null
                THEN buildmatchesmap(patterns(text), 1, text, <<>>)
                ELSE map
    /\ op' = [kind |-> "textmap", setname |-> "", ranges |-> <<>>]
    /\ UNCHANGED <<text, inserted, n, defs, opts, out, series>>

NextStyler == EditorPut \/ EditorInsert \/ OnBeforeInput \/ OnInput \/ Refresh \/ TextMap

SpecStyler == InitStyler /\ [][NextStyler]_vars

MatchesMapOf(txt) == buildmatchesmap(patterns(txt), 1, txt, <<>>)

(* C30: after any sequence of put, insert and beforeinput/input pairs the  *)
(* cached matches map a remarkup uses is the one built from the text being *)
(* marked up: the cache is cleared before each text change, rebuilt on the *)
(* first remarkup that follows and never reused across a text change       *)
C30_CacheOfText ==
  /\ out.kind = "remarkup" => out.used = MatchesMapOf(out.text)
  /\ op.kind = "beforeinput" => map = Null
  /\ map # Null => map = MatchesMapOf(text)

(* a put or insert changes the text while a map of the old text is cached, *)
(* and the remarkup uses another map, that of the new text                 *)
C30_Witness ==
  /\ out.kind = "remarkup"
  /\ op.kind \in {"put", "insert"}
  /\ out.before # Null
  /\ out.before # out.used
  /\ out.used = MatchesMapOf(text)
  /\ Len(out.used) > 0

====
